---- MODULE Spec2Model ----
(***************************************************************************)
(* Model of the task tracker of cli-productivity: the todos table          *)
(* (TODO/database.py), the Todo record (TODO/model.py), the commands of    *)
(* prodcli/TODO/todo_app.py, the repeat command of TODO/todo_app.py, the   *)
(* day-relevance function of prodcli/TODO/dashboard.py, and the time       *)
(* tracker (TIMETRACK/database.py, TIMETRACK/timetrap_app.py).             *)
(*                                                                         *)
(* Dates.  Python keeps a date as an ordinal and the table keeps it as ISO *)
(* text.  Here a date object is the number of days since 2024-01-01 (a     *)
(* Monday) and the ISO text "YYYY-MM-DD" is the tuple <<Y, M, D>>;         *)
(* isoformat and fromisoformat convert between the two.  A NULL date       *)
(* column is the empty tuple.                                              *)
(***************************************************************************)
EXTENDS Integers, Sequences, FiniteSets, TLC

VARIABLES todos, seq, today, last, ops, q,
          sheets, entries, current, sqlite_sequence

vars == <<todos, seq, today, last, ops, q,
         sheets, entries, current, sqlite_sequence>>

\* the time tracker's state: the two tables of timetrack.db, the name in
\* the current-sheet file and the AUTOINCREMENT counters of the tables
timetrack == <<sheets, entries, current, sqlite_sequence>>

\* ---------------------------------------------------------------- bounds
MaxId == 3          \* rows the table may ever have been given (AUTOINCREMENT)
MaxOps == 4         \* commands run, and days passed, in one behaviour
MaxEvals == 2       \* evaluations of one (task, day) pair by the dashboard
MaxYears == 2       \* years of the calendar, counted from 2024

\* ------------------------------------------------------------- calendar
Years == 2024..(2024 + MaxYears - 1)
FirstYear == CHOOSE y \in Years : \A z \in Years : y <= z
LastYear == CHOOSE y \in Years : \A z \in Years : y >= z

IsLeap(y) == (y % 4 = 0) /\ ((y % 100 # 0) \/ (y % 400 = 0))

DaysInMonth(y, m) ==
    IF m = 2 THEN (IF IsLeap(y) THEN 29 ELSE 28)
    ELSE IF m \in {4, 6, 9, 11} THEN 30 ELSE 31

DaysInYear(y) == IF IsLeap(y) THEN 366 ELSE 365

RECURSIVE DaysBeforeMonth(_, _)
DaysBeforeMonth(y, m) ==
    IF m = 1 THEN 0 ELSE DaysBeforeMonth(y, m - 1) + DaysInMonth(y, m - 1)

RECURSIVE DaysBeforeYear(_)
DaysBeforeYear(y) ==
    IF y = FirstYear THEN 0 ELSE DaysBeforeYear(y - 1) + DaysInYear(y - 1)

MaxOrdinal == DaysBeforeYear(LastYear) + DaysInYear(LastYear) - 1

NULLDATE == <<>>

\* the text is "YYYY-MM-DD" naming a day of the calendar
ValidIso(t) ==
    /\ Len(t) = 3
    /\ t[1] \in Years
    /\ t[2] \in 1..12
    /\ t[3] \in 1..DaysInMonth(t[1], t[2])

\* date.toordinal, counted from 2024-01-01
toordinal(t) == DaysBeforeYear(t[1]) + DaysBeforeMonth(t[1], t[2]) + t[3] - 1

\* date.isoformat: the text of every date object of the model
IsoTable ==
    [n \in 0..MaxOrdinal |->
        LET y == CHOOSE yy \in Years :
                    DaysBeforeYear(yy) <= n /\ n < DaysBeforeYear(yy) + DaysInYear(yy)
            r == n - DaysBeforeYear(y)
            m == CHOOSE mm \in 1..12 :
                    DaysBeforeMonth(y, mm) <= r /\ r < DaysBeforeMonth(y, mm) + DaysInMonth(y, mm)
        IN  <<y, m, r - DaysBeforeMonth(y, m) + 1>>]

isoformat(n) == IsoTable[n]

\* datetime.fromisoformat(text).date(); raises ValueError on other text
CanParse(t) == ValidIso(t)
fromisoformat(t) == toordinal(t)

month(n) == isoformat(n)[2]
day(n) == isoformat(n)[3]
year(n) == isoformat(n)[1]

\* date.weekday(): Monday is 0; ordinal 0 is a Monday
weekday(n) == n % 7

\* date.isocalendar()[1]: the week of the year that holds the Thursday of
\* the date's Monday-start week
isoweek(n) ==
    LET thursday == n - weekday(n) + 3
    IN  IF thursday < 0 THEN 52
        ELSE IF thursday > MaxOrdinal THEN 1
        ELSE (thursday - DaysBeforeYear(year(thursday))) \div 7 + 1

\* text comparison of two ISO dates, as SQLite's < on date() results
IsoLess(a, b) ==
    \/ a[1] < b[1]
    \/ a[1] = b[1] /\ a[2] < b[2]
    \/ a[1] = b[1] /\ a[2] = b[2] /\ a[3] < b[3]

\* ------------------------------------------------------------ Todo record
NULL == "<NULL>"        \* None / SQL NULL in a text column
NoParent == 0           \* None / SQL NULL in parent_id (row ids start at 1)

StatusSet == {"pending", "in-progress", "done", "archived"}
PrioritySet == {"low", "medium", "high"}
RecurrenceSet == {"daily", "weekly", "monthly", "none"}

\* str.lower().strip() on the spellings the model feeds in
lower_strip(s) ==
    CASE s = "Done" -> "done"
      [] s = " HIGH" -> "high"
      [] s = "Daily " -> "daily"
      [] s = "NONE" -> "none"
      [] OTHER -> s

\* alias.strip().lower().replace(" ", "-")
alias_norm(s) ==
    CASE s = "My A" -> "my-a"
      [] s = " " -> ""
      [] OTHER -> lower_strip(s)

\* Todo.__post_init__
post_init(t) ==
    LET st == lower_strip(t.status)
        pr == lower_strip(t.priority)
        rc == IF t.recurrence \in {NULL, ""} THEN t.recurrence
              ELSE IF lower_strip(t.recurrence) \in RecurrenceSet
                   THEN lower_strip(t.recurrence) ELSE NULL
        al == IF t.alias \in {NULL, ""} THEN NULL
              ELSE IF alias_norm(t.alias) = "" THEN NULL ELSE alias_norm(t.alias)
    IN  [t EXCEPT !.status = IF st \in StatusSet THEN st ELSE "pending",
                  !.priority = IF pr \in PrioritySet THEN pr ELSE "medium",
                  !.recurrence = rc,
                  !.alias = al]

\* Todo(...): the dataclass constructor with its defaults, then __post_init__
Todo(task, priority, due_date, status, date_added, date_completed, recurrence, id, parent_id, alias) ==
    post_init([id |-> id, task |-> task, priority |-> priority, due_date |-> due_date,
               status |-> status, date_added |-> date_added,
               date_completed |-> date_completed, recurrence |-> recurrence,
               parent_id |-> parent_id, alias |-> alias])

\* `if todo.recurrence:` - None and the empty string are false
Truthy(s) == s # NULL /\ s # ""

\* ---------------------------------------------------------------- the table
\* get_db_connection never issues PRAGMA foreign_keys = ON, and SQLite
\* leaves foreign keys off on a new connection: the FOREIGN KEY clause of
\* create_tables is parsed and not enforced.
foreign_keys == FALSE

\* the unique index idx_alias: ON todos (alias) WHERE alias IS NOT NULL
AliasTaken(rows, alias, except_id) ==
    alias # NULL /\ \E r \in rows : r.id # except_id /\ r.alias = alias

\* get_all_todos: every row, through the Todo constructor
get_all_todos(rows) == {post_init(r) : r \in rows}

\* rows in rowid order
RECURSIVE ById(_)
ById(rows) ==
    IF rows = {} THEN <<>>
    ELSE LET r == CHOOSE x \in rows : \A y \in rows : x.id <= y.id
         IN  <<r>> \o ById(rows \ {r})

\* insert_todo: IntegrityError is caught, the row is not stored
insert_todo(rows, s, todo) ==
    IF AliasTaken(rows, todo.alias, 0)
    THEN [rows |-> rows, seq |-> s, ok |-> FALSE]
    ELSE [rows |-> rows \cup {[todo EXCEPT !.id = s + 1]}, seq |-> s + 1, ok |-> TRUE]

UpdatableFields ==
    {"task", "priority", "due_date", "status", "date_completed", "recurrence",
     "parent_id", "alias"}

Arg(kw, f, old) == IF f \in DOMAIN kw THEN kw[f] ELSE old

\* the row after UPDATE todos SET <kw> WHERE id = ?
SetFields(r, kw) ==
    [id |-> r.id,
     task |-> Arg(kw, "task", r.task),
     priority |-> Arg(kw, "priority", r.priority),
     due_date |-> Arg(kw, "due_date", r.due_date),
     status |-> Arg(kw, "status", r.status),
     date_added |-> r.date_added,
     date_completed |-> Arg(kw, "date_completed", r.date_completed),
     recurrence |-> Arg(kw, "recurrence", r.recurrence),
     parent_id |-> Arg(kw, "parent_id", r.parent_id),
     alias |-> Arg(kw, "alias", r.alias)]

\* update_todo: one UPDATE statement; IntegrityError is caught and nothing
\* of the statement is stored
update_todo(rows, todo_id, kw) ==
    IF DOMAIN kw \cap UpdatableFields = {} THEN [rows |-> rows, ok |-> FALSE]
    ELSE IF "alias" \in DOMAIN kw /\ (\E r \in rows : r.id = todo_id)
            /\ AliasTaken(rows, kw.alias, todo_id)
    THEN [rows |-> rows, ok |-> FALSE]
    ELSE [rows |-> {IF r.id = todo_id THEN SetFields(r, kw) ELSE r : r \in rows},
          ok |-> \E r \in rows : r.id = todo_id]

\* rows removed by ON DELETE CASCADE when foreign keys are enforced
RECURSIVE Descendants(_, _)
Descendants(rows, ids) ==
    LET more == {r.id : r \in {x \in rows : x.parent_id \in ids}} \ ids
    IN  IF more = {} THEN ids ELSE Descendants(rows, ids \cup more)

\* delete_todo
delete_todo(rows, todo_id) ==
    IF foreign_keys
    THEN {r \in rows : r.id \notin Descendants(rows, {todo_id})}
    ELSE {r \in rows : r.id # todo_id}

\* a completion that stamps the day into date_added as well
complete_todo_stamps_added(rows, todo_id, now) ==
    {IF r.id = todo_id
     THEN [r EXCEPT !.status = "done", !.date_completed = isoformat(now),
                    !.date_added = isoformat(now)]
     ELSE r : r \in rows}

\* complete_todo
complete_todo(rows, todo_id, now) ==
    {IF r.id = todo_id
     THEN [r EXCEPT !.status = "done", !.date_completed = isoformat(now)]
     ELSE r : r \in rows}

\* set_status
set_status(rows, todo_id, status, now) ==
    {IF r.id = todo_id
     THEN [r EXCEPT !.status = status,
                    !.date_completed = IF status = "done" THEN isoformat(now) ELSE NULLDATE]
     ELSE r : r \in rows}

\* a children query that forgets whose children it was asked for
get_children_of_anyone(rows, parent_id) ==
    {post_init(r) : r \in {x \in rows : x.parent_id # NoParent}}

\* get_children_of_todo
get_children_of_todo(rows, parent_id) ==
    {post_init(r) : r \in {x \in rows : x.parent_id = parent_id}}

\* get_todo_by_id_or_alias: an identifier made of digits is a row id, any
\* other is an alias and, failing that, a task text (first row found).
\* The result is a set: empty for None.
get_todo_by_id_or_alias(rows, identifier, isdigit) ==
    IF isdigit
    THEN {post_init(r) : r \in {x \in rows : x.id = identifier}}
    ELSE IF \E r \in rows : r.alias = identifier
    THEN {post_init(r) : r \in {x \in rows : x.alias = identifier}}
    ELSE LET named == {x \in rows : x.task = identifier}
         IN  IF named = {} THEN {} ELSE {post_init(ById(named)[1])}

\* ------------------------------------------------- refresh_all_recurring_tasks
\* a SELECT that takes today's rows too (<= in place of <)
old_tasks_upto_today(rows, now) ==
    ById({r \in rows : /\ r.recurrence \in {"daily", "weekly", "monthly"}
                       /\ ValidIso(r.date_added)
                       /\ ~IsoLess(isoformat(now), r.date_added)})

\* a SELECT that takes the daily rows alone
old_tasks_daily_only(rows, now) ==
    ById({r \in rows : /\ r.recurrence = "daily"
                       /\ ValidIso(r.date_added)
                       /\ IsoLess(r.date_added, isoformat(now))})

\* the SELECT: recurring rows whose date(date_added) is before today
old_tasks(rows, now) ==
    ById({r \in rows : /\ r.recurrence \in {"daily", "weekly", "monthly"}
                       /\ ValidIso(r.date_added)
                       /\ IsoLess(r.date_added, isoformat(now))})

\* a new instance for every selected row, whatever its week or month
should_create_whenever_selected(old, now) == TRUE

should_create(old, now) ==
    LET date_added == fromisoformat(old.date_added)
    IN  IF old.recurrence = "daily" THEN TRUE
        ELSE IF old.recurrence = "weekly" THEN isoweek(now) # isoweek(date_added)
        ELSE IF old.recurrence = "monthly" THEN month(now) # month(date_added)
        ELSE FALSE

\* the loop over old_tasks from position i, inside one open transaction;
\* fault is the position whose UPDATE the database refuses (0: none).
\* An INSERT that breaks idx_alias raises IntegrityError out of the loop.
RECURSIVE refresh_loop(_, _, _, _, _, _, _)
refresh_loop(old, i, rows, s, count, now, fault) ==
    IF i > Len(old) THEN [rows |-> rows, seq |-> s, count |-> count, raised |-> FALSE, at |-> 0]
    ELSE IF fault = i THEN [rows |-> rows, seq |-> s, count |-> count, raised |-> TRUE, at |-> i]
    ELSE
      LET o == old[i]
          archived == {IF r.id = o.id THEN [r EXCEPT !.status = "archived"] ELSE r : r \in rows}
          new_task == Todo(o.task, o.priority, NULLDATE, "pending", isoformat(now),
                           NULLDATE, o.recurrence, 0, o.parent_id, o.alias)
      IN  IF ~should_create(o, now)
          THEN refresh_loop(old, i + 1, archived, s, count, now, fault)
          ELSE IF AliasTaken(archived, new_task.alias, 0)
          THEN [rows |-> archived, seq |-> s, count |-> count, raised |-> TRUE, at |-> i]
          ELSE refresh_loop(old, i + 1, archived \cup {[new_task EXCEPT !.id = s + 1]},
                            s + 1, count + 1, now, fault)

\* a refresh that commits after every row: what a failure would leave behind
refresh_commits_each(rows, s, now, fault) ==
    refresh_loop(old_tasks(rows, now), 1, rows, s, 0, now, fault)

\* refresh_all_recurring_tasks: conn.commit() is the last statement, so an
\* exception leaves the transaction uncommitted and the table as it was
refresh_all_recurring_tasks(rows, s, now, fault) ==
    LET run == refresh_loop(old_tasks(rows, now), 1, rows, s, 0, now, fault)
    IN  IF run.raised
        THEN [rows |-> rows, seq |-> s, count |-> 0, raised |-> TRUE, at |-> run.at]
        ELSE run

\* delete_past_due_todos
delete_past_due_todos(rows, now) ==
    {r \in rows : ~ (/\ r.due_date # NULLDATE
                     /\ ValidIso(r.due_date)
                     /\ IsoLess(r.due_date, isoformat(now))
                     /\ r.recurrence \in {NULL, "", "none"})}

\* ------------------------------------------------------------- dashboard
Res(raised, value) == [raised |-> raised, value |-> value]

\* is_display_daily, the branch of a task without recurrence; now is
\* datetime.today().date().  raised: ValueError from datetime.fromisoformat
display_non_recurring(todo, day_iso, now) ==
    LET day_date == fromisoformat(day_iso)
    IN  IF todo.status = "done" /\ todo.date_completed = day_iso
        THEN Res(FALSE, TRUE)
        ELSE IF ~CanParse(todo.date_added) THEN Res(TRUE, FALSE)
        ELSE LET added_date == fromisoformat(todo.date_added)
             IN  IF /\ added_date < now /\ day_date < now
                    /\ added_date <= day_date /\ todo.status # "done"
                 THEN Res(FALSE, TRUE)
                 ELSE IF added_date = day_date /\ todo.status # "done"
                 THEN Res(FALSE, TRUE)
                 ELSE Res(FALSE, FALSE)

\* is_display_daily, the branch of a recurring task
display_recurring(todo, day_iso) ==
    LET day_date == fromisoformat(day_iso)
    IN  IF ~CanParse(todo.date_added) THEN Res(TRUE, FALSE)
        ELSE LET task_start_date == fromisoformat(todo.date_added)
             IN  IF day_date < task_start_date THEN Res(FALSE, FALSE)
                 ELSE IF todo.recurrence = "daily" THEN Res(FALSE, TRUE)
                 ELSE IF todo.recurrence = "weekly"
                 THEN LET start_of_task_week == task_start_date - weekday(task_start_date)
                          start_of_current_day_week == day_date - weekday(day_date)
                      IN  Res(FALSE, \/ start_of_task_week = start_of_current_day_week
                                     \/ start_of_current_day_week > start_of_task_week)
                 ELSE IF todo.recurrence = "monthly"
                 THEN Res(FALSE, day(day_date) = day(task_start_date))
                 ELSE Res(FALSE, FALSE)

\* is_display_daily without the status test of the overdue and added-on-day
\* rules: a done task is treated there as an open one
display_ignoring_done(todo, day_iso, now) ==
    IF ~CanParse(day_iso) THEN Res(TRUE, FALSE)
    ELSE IF ~Truthy(todo.recurrence)
    THEN IF todo.status = "done" /\ todo.date_completed # day_iso
         THEN display_non_recurring([todo EXCEPT !.status = "pending"], day_iso, now)
         ELSE display_non_recurring(todo, day_iso, now)
    ELSE display_recurring(todo, day_iso)

\* is_display_daily with the anchor guard of a recurring task taken against
\* the current date instead of the day asked about
display_anchor_against_today(todo, day_iso, now) ==
    IF ~CanParse(day_iso) THEN Res(TRUE, FALSE)
    ELSE IF ~Truthy(todo.recurrence) THEN display_non_recurring(todo, day_iso, now)
    ELSE IF CanParse(todo.date_added) /\ now < fromisoformat(todo.date_added)
    THEN Res(FALSE, FALSE)
    ELSE display_recurring(todo, day_iso)

\* is_display_daily with a monthly task taken every 30 days from its
\* anchor instead of on its day of the month
display_monthly_every_30_days(todo, day_iso, now) ==
    IF ~CanParse(day_iso) THEN Res(TRUE, FALSE)
    ELSE IF ~Truthy(todo.recurrence) THEN display_non_recurring(todo, day_iso, now)
    ELSE IF todo.recurrence = "monthly" /\ CanParse(todo.date_added)
    THEN Res(FALSE, /\ fromisoformat(day_iso) >= fromisoformat(todo.date_added)
                    /\ (fromisoformat(day_iso) - fromisoformat(todo.date_added)) % 30 = 0)
    ELSE display_recurring(todo, day_iso)

\* is_display_daily with the anchor guard one day off (<= in place of <)
display_from_day_after_anchor(todo, day_iso, now) ==
    IF ~CanParse(day_iso) THEN Res(TRUE, FALSE)
    ELSE IF ~Truthy(todo.recurrence) THEN display_non_recurring(todo, day_iso, now)
    ELSE IF CanParse(todo.date_added) /\ fromisoformat(day_iso) = fromisoformat(todo.date_added)
    THEN Res(FALSE, FALSE)
    ELSE display_recurring(todo, day_iso)

\* is_display_daily with the overdue window of a task without recurrence
\* running through the current date (<= in place of <)
display_overdue_through_today(todo, day_iso, now) ==
    IF ~CanParse(day_iso) THEN Res(TRUE, FALSE)
    ELSE IF ~Truthy(todo.recurrence) THEN display_non_recurring(todo, day_iso, now + 1)
    ELSE display_recurring(todo, day_iso)

\* is_display_daily
is_display_daily(todo, day_iso, now) ==
    IF ~CanParse(day_iso) THEN Res(TRUE, FALSE)
    ELSE IF ~Truthy(todo.recurrence) THEN display_non_recurring(todo, day_iso, now)
    ELSE display_recurring(todo, day_iso)

\* list_todos.is_recurring_today
is_recurring_today(todo, current_date) ==
    IF ~Truthy(todo.recurrence) THEN Res(FALSE, FALSE)
    ELSE IF ~CanParse(todo.date_added) THEN Res(TRUE, FALSE)
    ELSE LET task_start_date == fromisoformat(todo.date_added)
         IN  IF current_date < task_start_date THEN Res(FALSE, FALSE)
             ELSE IF todo.recurrence = "daily" THEN Res(FALSE, TRUE)
             ELSE IF todo.recurrence = "weekly"
             THEN LET start_of_task_week == task_start_date - weekday(task_start_date)
                      start_of_current_week == current_date - weekday(current_date)
                  IN  Res(FALSE, start_of_current_week >= start_of_task_week)
             ELSE IF todo.recurrence = "monthly"
             THEN Res(FALSE, day(current_date) = day(task_start_date))
             ELSE Res(FALSE, FALSE)

\* add_children_recursive_calendar / add_children_recursive_weekly: the
\* children of the shown rows, each at most once (seen_todo_ids_on_day)
RECURSIVE with_children(_, _)
with_children(all, seen) ==
    LET more == {c.id : c \in {x \in all : x.parent_id \in seen}} \ seen
    IN  IF more = {} THEN seen ELSE with_children(all, seen \cup more)

\* the rows written under one day of the calendar or of the weekly view
shown_on_day(all, day_iso, now) ==
    with_children(all, {t.id : t \in {x \in all :
        /\ is_display_daily(x, day_iso, now).value
        /\ x.parent_id = NoParent}})

\* show_calendar for the month of display_month_year: the ids written
\* under any day
show_calendar(rows, y, m, now) ==
    LET all == get_all_todos(rows)
    IN  UNION {shown_on_day(all, <<y, m, d>>, now) : d \in 1..DaysInMonth(y, m)}

\* datetime.fromisocalendar(year, week, 1)
fromisocalendar(y, w) ==
    LET jan4 == toordinal(<<y, 1, 4>>)
    IN  jan4 - weekday(jan4) + 7 * (w - 1)

\* show_weekly: the ids written under any of the seven days
show_weekly(rows, y, w, now) ==
    LET all == get_all_todos(rows)
        start_of_week == fromisocalendar(y, w)
    IN  UNION {shown_on_day(all, isoformat(start_of_week + idx), now) : idx \in 0..6}

\* ------------------------------------------------------------- list_todos
all_todos(rows) == {t \in get_all_todos(rows) : t.status # "archived"}

should_display(todo, now) ==
    \/ /\ todo.status \in {"pending", "in-progress"}
       /\ todo.due_date = isoformat(now)
    \/ /\ Truthy(todo.recurrence)
       /\ is_recurring_today(todo, now).value
       /\ ~ (todo.status = "done" /\ todo.date_completed = isoformat(now))

\* one turn of `while current_id is not None`: the parent of current_id
\* among all, 0 for None
parent_of(all, current_id) ==
    IF \E t \in all : t.id = current_id /\ t.parent_id # NoParent
    THEN (CHOOSE t \in all : t.id = current_id /\ t.parent_id # NoParent).parent_id
    ELSE 0

\* the walk from current_id up the parent references, fuel turns long:
\* the ids it adds, and whether it has ended
RECURSIVE walk(_, _, _)
walk(all, current_id, fuel) ==
    IF current_id = 0 THEN [ids |-> {}, ended |-> TRUE]
    ELSE IF fuel = 0 THEN [ids |-> {}, ended |-> FALSE]
    ELSE LET up == parent_of(all, current_id)
             rest == walk(all, up, fuel - 1)
         IN  [ids |-> (IF up = 0 THEN {} ELSE {up}) \cup rest.ids, ended |-> rest.ended]

\* the walk of a displayed row with a parent; a walk that has not ended
\* after visiting more rows than there are never ends
walk_from(all, todo) ==
    IF todo.parent_id = NoParent THEN [ids |-> {}, ended |-> TRUE]
    ELSE walk(all, todo.id, Cardinality(all) + 1)

display_todo_ids(all, now) ==
    UNION {{t.id} \cup walk_from(all, t).ids : t \in {x \in all : should_display(x, now)}}

list_ends(all, now) ==
    \A t \in all : should_display(t, now) => walk_from(all, t).ended

\* add_task_rows_recursive from children_map[None]: the rows of the table
RECURSIVE rows_under(_, _)
rows_under(filtered, ids) ==
    LET more == {c.id : c \in {x \in filtered : x.parent_id \in ids}} \ ids
    IN  IF more = {} THEN ids ELSE rows_under(filtered, ids \cup more)

list_todos(rows, now) ==
    LET all == all_todos(rows)
        filtered == {t \in all : t.id \in display_todo_ids(all, now)}
        top == {t.id : t \in {x \in filtered : x.parent_id = NoParent}}
    IN  IF top = {} THEN {} ELSE rows_under(filtered, top)

\* ------------------------------------------------------------------ repeat
\* base_date + relativedelta(months=1): the same day of the next month, or
\* that month's last day when it has no such day
clipped(y, m, d) ==
    toordinal(<<y, m, IF d <= DaysInMonth(y, m) THEN d ELSE DaysInMonth(y, m)>>)

month_after(t) ==
    clipped(IF t[2] = 12 THEN t[1] + 1 ELSE t[1], IF t[2] = 12 THEN 1 ELSE t[2] + 1, t[3])

add_month(n) == month_after(isoformat(n))

\* repeat: one recurrence period after a date
one_period(n, recurrence) ==
    IF recurrence = "daily" THEN n + 1
    ELSE IF recurrence = "weekly" THEN n + 7
    ELSE add_month(n)

\* repeat: while next_due < today, one more period
RECURSIVE catch_up(_, _, _)
catch_up(next_due, recurrence, now) ==
    IF next_due < now THEN catch_up(one_period(next_due, recurrence), recurrence, now)
    ELSE next_due

\* repeat: whether the loop takes up this task
repeats(task) ==
    /\ task.status = "done" /\ Truthy(task.recurrence)
    /\ lower_strip(task.recurrence) # "none"
    /\ task.recurrence \in {"daily", "weekly", "monthly"}
    /\ CanParse(IF task.date_completed # NULLDATE THEN task.date_completed
                ELSE task.date_added)

\* repeat: the next due date of a task the loop takes up
next_due_of(task, now) ==
    LET base_str == IF task.date_completed # NULLDATE THEN task.date_completed
                    ELSE task.date_added
        base_date == fromisoformat(base_str)
    IN  catch_up(one_period(base_date, task.recurrence), task.recurrence, now)

\* a duplicate check that takes only a task due after the next due date
duplicate_due_later(tasks, task, next_due) ==
    \E i \in 1..Len(tasks) :
        /\ tasks[i].task = task.task
        /\ tasks[i].status # "done"
        /\ tasks[i].recurrence = task.recurrence
        /\ tasks[i].due_date # NULLDATE /\ CanParse(tasks[i].due_date)
        /\ fromisoformat(tasks[i].due_date) > next_due

\* repeat: an open task of the same text and recurrence is due on the
\* next due date or later
duplicate(tasks, task, next_due) ==
    \E i \in 1..Len(tasks) :
        /\ tasks[i].task = task.task
        /\ tasks[i].status # "done"
        /\ tasks[i].recurrence = task.recurrence
        /\ tasks[i].due_date # NULLDATE /\ CanParse(tasks[i].due_date)
        /\ fromisoformat(tasks[i].due_date) >= next_due

\* a loop body that hands the done task's parent_id on to the new Todo
new_task_keeping_parent(tasks, task, now) ==
    IF ~repeats(task) THEN {}
    ELSE IF duplicate(tasks, task, next_due_of(task, now)) THEN {}
    ELSE {Todo(task.task, task.priority, isoformat(next_due_of(task, now)), "pending",
               isoformat(next_due_of(task, now)), NULLDATE, task.recurrence,
               0, task.parent_id, NULL)}

\* repeat: the Todo the loop body builds for one task, if it builds one
\* (tasks is the list read at the start of the command)
new_task_for(tasks, task, now) ==
    IF ~repeats(task) THEN {}
    ELSE LET next_due == next_due_of(task, now)
         IN  IF duplicate(tasks, task, next_due) THEN {}
             ELSE {Todo(task.task, task.priority, isoformat(next_due), "pending",
                        isoformat(next_due), NULLDATE, task.recurrence,
                        0, NoParent, NULL)}

\* repeat: the loop from position i; built[i] is what the body builds for
\* the i-th task read, and insert_todo stores it
RECURSIVE repeat_loop(_, _, _, _, _, _)
repeat_loop(tasks, built, i, rows, s, made) ==
    IF i > Len(tasks) THEN [rows |-> rows, seq |-> s, made |-> made]
    ELSE IF built[i] = {} THEN repeat_loop(tasks, built, i + 1, rows, s, made)
    ELSE LET put == insert_todo(rows, s, CHOOSE t \in built[i] : TRUE)
         IN  repeat_loop(tasks, built, i + 1, put.rows, put.seq,
                         made \cup {[id |-> put.seq, of |-> tasks[i].id]})

\* repeat
repeat(rows, s, now) ==
    LET tasks == ById(get_all_todos(rows))
        built == [i \in 1..Len(tasks) |-> new_task_for(tasks, tasks[i], now)]
    IN  repeat_loop(tasks, built, 1, rows, s, {})

\* ------------------------------------------------------------------ inputs
FirstDay == toordinal(<<2024, 1, 30>>)          \* a Tuesday
\* the days on which the program is run: a later day of the same ISO week
\* that lies in the next month, and a day of the week after
RunDays == {FirstDay, FirstDay + 2, FirstDay + 7}

TaskInputs == {"t"}
AddStatusInputs == {"pending"}
AddRecurrenceInputs == {NULL, "daily", "weekly", "monthly"}
AliasInputs == {NULL, "a"}
StatusInputs == {"in-progress", "done"}
NameInputs == {"a"}

NotGiven == NULL
\* the options of one `update` call (NotGiven: option absent)
Opt(priority, status, recurrence, alias) ==
    [task |-> NotGiven, priority |-> priority, status |-> status,
     recurrence |-> recurrence, alias |-> alias]
UpdateInputs ==
    {Opt("high", NotGiven, NotGiven, NotGiven),
     Opt(NotGiven, "done", NotGiven, NotGiven),
     Opt(NotGiven, NotGiven, "daily", NotGiven),
     Opt("high", NotGiven, NotGiven, "a")}

\* what an identifier typed on the command line resolves to: a row id ...
Targets == {get_todo_by_id_or_alias(todos, i, TRUE) : i \in 1..MaxId}
\* ... or an alias or a task text
NamedTargets == {get_todo_by_id_or_alias(todos, n, FALSE) : n \in NameInputs}

\* ------------------------------------------------ the time tracker's tables
\* TIMETRACK/database.py.  A datetime is kept to its day: start_time and
\* end_time hold the ISO text of a date, end_time NULL while the entry runs.
\* get_db_connection of the time tracker sets a row factory and nothing
\* else: foreign keys stay off on every connection it opens, and the
\* ON DELETE CASCADE of entries.sheet_id is parsed and not enforced.
timetrack_foreign_keys == FALSE

Sheet(id, name) == [id |-> id, name |-> name]

Entry(id, sheet_id, start_time, end_time, note) ==
    [id |-> id, sheet_id |-> sheet_id, start_time |-> start_time,
     end_time |-> end_time, note |-> note]

\* create_tables on a new file, and no current-sheet file
InitTimetrack ==
    /\ sheets = {}
    /\ entries = {}
    /\ current = NULL
    /\ sqlite_sequence = [sheets |-> 0, entries |-> 0]

\* the row or None: a set of at most one row
get_sheet_by_name(rows, sheet_name) == {s \in rows : s.name = sheet_name}

get_sheet_by_id(rows, sheet_id) == {s \in rows : s.id = sheet_id}

get_entry_by_id(rows, entry_id) == {e \in rows : e.id = entry_id}

\* WHERE end_time IS NULL
get_running_entries(rows) == {e \in rows : e.end_time = NULLDATE}

\* INSERT INTO sheets; name is UNIQUE, and the refused insert returns the
\* sheet that has the name
insert_sheet(rows, n, sheet_name) ==
    IF get_sheet_by_name(rows, sheet_name) # {}
    THEN [rows |-> rows, n |-> n, sheet |-> get_sheet_by_name(rows, sheet_name)]
    ELSE [rows |-> rows \cup {Sheet(n + 1, sheet_name)}, n |-> n + 1,
          sheet |-> {Sheet(n + 1, sheet_name)}]

\* INSERT INTO entries: the row gets the next id, and sheet_id is not checked
insert_entry(rows, n, entry) == rows \cup {[entry EXCEPT !.id = n + 1]}

\* update_entry with end_time alone
update_entry(rows, entry_id, end_time) ==
    {IF e.id = entry_id THEN [e EXCEPT !.end_time = isoformat(end_time)] ELSE e : e \in rows}

\* DELETE FROM sheets WHERE name = ?, on both tables; ok: rows_affected > 0
delete_sheet(sheet_rows, entry_rows, sheet_name) ==
    [sheets |-> {s \in sheet_rows : s.name # sheet_name},
     entries |-> IF timetrack_foreign_keys
                 THEN {e \in entry_rows :
                         \A s \in get_sheet_by_name(sheet_rows, sheet_name) : e.sheet_id # s.id}
                 ELSE entry_rows,
     ok |-> get_sheet_by_name(sheet_rows, sheet_name) # {}]

\* DELETE FROM entries WHERE id = ?
delete_entry(rows, entry_id) == {e \in rows : e.id # entry_id}

\* get_current_sheet_name, get_current_sheet: the sheet the file names
get_current_sheet(name, rows) ==
    IF Truthy(name) THEN get_sheet_by_name(rows, name) ELSE {}

\* ------------------------------------------------------------------- state
\* last: the command that ran last, how it ended, and what a view wrote
Ran(op, res, out) == [op |-> op, res |-> res, out |-> out]
\* q: the evaluations of is_display_daily on one (task, day) pair: how
\* many, the day, the clock and result of the latest and of the one before,
\* is_recurring_today on the same pair, and the table at the first of them
NoQuery ==
    [n |-> 0, day |-> NULLDATE, now |-> 0, res |-> Res(FALSE, FALSE),
     prev_now |-> 0, prev_res |-> Res(FALSE, FALSE),
     listed |-> Res(FALSE, FALSE), store |-> {}]

Init ==
    /\ todos = {}
    /\ seq = 0
    /\ today = FirstDay
    /\ last = Ran("start", "ok", {})
    /\ ops = 0
    /\ q = NoQuery
    /\ InitTimetrack

\* one more command run, or day passed, of the at most MaxOps of a behaviour
Counted == ops < MaxOps /\ ops' = ops + 1

\* ---------------------------------------------------------------- commands
\* add_todo
Add(task, status, recurrence, parent, alias) ==
    /\ Counted
    /\ seq < MaxId
    /\ LET parent_id == IF parent = {} THEN NoParent
                        ELSE (CHOOSE p \in parent : TRUE).id
           rec == IF parent # {} /\ ~Truthy(recurrence)
                     /\ Truthy((CHOOSE p \in parent : TRUE).recurrence)
                  THEN (CHOOSE p \in parent : TRUE).recurrence
                  ELSE recurrence
           new_todo == Todo(task, "medium", NULLDATE, status, isoformat(today),
                            NULLDATE, rec, 0, parent_id, alias)
           ins == insert_todo(todos, seq, new_todo)
       IN  /\ todos' = ins.rows
           /\ seq' = ins.seq
           /\ last' = Ran("add", IF ins.ok THEN "ok" ELSE "conflict", {})
    /\ UNCHANGED <<today, q, timetrack>>

\* update_params of update_todo_command
update_params(opt, parent_given, parent) ==
    LET keys == {f \in {"task", "priority", "status", "recurrence", "alias"} :
                    opt[f] # NotGiven}
                \cup (IF parent_given /\ parent # {} THEN {"parent_id"} ELSE {})
    IN  [f \in keys |->
            IF f = "parent_id" THEN (CHOOSE p \in parent : TRUE).id
            ELSE IF f \in {"recurrence", "alias"} /\ opt[f] = "none" THEN NULL
            ELSE opt[f]]

\* the children loop of update_todo_command
RECURSIVE update_children(_, _, _)
update_children(rows, children, child_updates) ==
    IF children = {} THEN rows
    ELSE LET child == CHOOSE c \in children : TRUE
         IN  update_children(update_todo(rows, child.id, child_updates).rows,
                             children \ {child}, child_updates)

\* update_todo_command; last.out: the id of the task it was given
Update(target, opt, parent_given, parent) ==
    /\ Counted
    /\ IF target = {}
       THEN /\ last' = Ran("update", "notfound", {})
            /\ UNCHANGED todos
       ELSE LET todo_obj == CHOOSE t \in target : TRUE
                params == update_params(opt, parent_given, parent)
                upd == update_todo(todos, todo_obj.id, params)
                child_updates == [f \in DOMAIN params \cap {"priority", "recurrence"} |-> params[f]]
                children == get_children_of_todo(upd.rows, todo_obj.id)
            IN  IF DOMAIN params = {}
                THEN /\ last' = Ran("update", "nothing", {})
                     /\ UNCHANGED todos
                ELSE /\ todos' = IF DOMAIN child_updates # {}
                                 THEN update_children(upd.rows, children, child_updates)
                                 ELSE upd.rows
                     /\ last' = Ran("update", IF upd.ok THEN "ok" ELSE "conflict",
                                    {todo_obj.id})
    /\ UNCHANGED <<seq, today, q, timetrack>>

\* complete_todo_command
Complete(target) ==
    /\ Counted
    /\ IF target = {}
       THEN /\ last' = Ran("complete", "notfound", {})
            /\ UNCHANGED todos
       ELSE LET todo_obj == CHOOSE t \in target : TRUE
            IN  IF todo_obj.status = "done"
                THEN /\ last' = Ran("complete", "already", {})
                     /\ UNCHANGED todos
                ELSE /\ todos' = complete_todo(todos, todo_obj.id, today)
                     /\ last' = Ran("complete", "ok", {})
    /\ UNCHANGED <<seq, today, q, timetrack>>

\* set_status_command
SetStatus(target, status) ==
    /\ Counted
    /\ IF target = {}
       THEN /\ last' = Ran("status", "notfound", {})
            /\ UNCHANGED todos
       ELSE /\ todos' = set_status(todos, (CHOOSE t \in target : TRUE).id, status, today)
            /\ last' = Ran("status", "ok", {})
    /\ UNCHANGED <<seq, today, q, timetrack>>

\* delete_todo_command
Delete(target) ==
    /\ Counted
    /\ IF target = {}
       THEN /\ last' = Ran("delete", "notfound", {})
            /\ UNCHANGED todos
       ELSE /\ todos' = delete_todo(todos, (CHOOSE t \in target : TRUE).id)
            /\ last' = Ran("delete", "ok", {(CHOOSE t \in target : TRUE).id})
    /\ UNCHANGED <<seq, today, q, timetrack>>

\* the rows a refresh on this table would write, capped by MaxId
Room(rows, now) ==
    seq + Cardinality({i \in 1..Len(old_tasks(rows, now)) :
                          should_create(old_tasks(rows, now)[i], now)}) <= MaxId

\* refresh_all_recurring_tasks, called on its own
Refresh(fault) ==
    /\ Counted
    /\ Room(todos, today)
    /\ fault <= Len(old_tasks(todos, today))
    /\ LET run == refresh_all_recurring_tasks(todos, seq, today, fault)
       IN  /\ todos' = run.rows
           /\ seq' = run.seq
           /\ last' = Ran("refresh", IF run.raised THEN "raised" ELSE "ok",
                          {old_tasks(todos, today)[i].id : i \in 1..(IF run.raised THEN run.at - 1 ELSE 0)})
    /\ UNCHANGED <<today, q, timetrack>>

\* clean_past_due_tasks: delete_past_due_todos commits, then the refresh
Clean(fault) ==
    /\ Counted
    /\ LET kept == delete_past_due_todos(todos, today)
       IN  /\ Room(kept, today)
           /\ fault <= Len(old_tasks(kept, today))
           /\ LET run == refresh_all_recurring_tasks(kept, seq, today, fault)
              IN  /\ todos' = run.rows
                  /\ seq' = run.seq
                  /\ last' = Ran("clean", IF run.raised THEN "raised" ELSE "ok", {})
    /\ UNCHANGED <<today, q, timetrack>>

\* list_todos; a walk that never ends leaves the command running
ListTodos ==
    /\ Counted
    /\ last' = IF list_ends(all_todos(todos), today)
               THEN Ran("list", "ok", list_todos(todos, today))
               ELSE Ran("list", "hang", {})
    /\ UNCHANGED <<todos, seq, today, q, timetrack>>

\* show_calendar without options: the month of today
ShowCalendar ==
    /\ Counted
    /\ last' = Ran("calendar", "ok", show_calendar(todos, year(today), month(today), today))
    /\ UNCHANGED <<todos, seq, today, q, timetrack>>

\* show_weekly without options: the ISO week of today
ShowWeekly ==
    /\ Counted
    /\ last' = Ran("weekly", "ok", show_weekly(todos, year(today), isoweek(today), today))
    /\ UNCHANGED <<todos, seq, today, q, timetrack>>

\* repeat; last.out: the ids of the rows it made
Repeat ==
    /\ Counted
    /\ LET run == repeat(todos, seq, today)
       IN  /\ run.seq <= MaxId
           /\ todos' = run.rows
           /\ seq' = run.seq
           /\ last' = Ran("repeat", "ok", {g.id : g \in run.made})
    /\ UNCHANGED <<today, q, timetrack>>

\* the wall clock reaches a later day on which the program is run
AdvanceDay ==
    /\ Counted
    /\ \E d \in RunDays : d > today /\ today' = d
    /\ last' = Ran("day", "ok", {})
    /\ UNCHANGED <<todos, seq, q, timetrack>>

Next ==
    \/ \E task \in TaskInputs, status \in AddStatusInputs,
          recurrence \in AddRecurrenceInputs, parent \in Targets \cup {{}},
          alias \in AliasInputs : Add(task, status, recurrence, parent, alias)
    \/ \E target \in Targets, opt \in UpdateInputs : Update(target, opt, FALSE, {})
    \/ \E target \in Targets, parent \in Targets : Update(target, Opt(NotGiven, NotGiven, NotGiven, NotGiven), TRUE, parent)
    \/ \E target \in Targets \cup NamedTargets : Complete(target)
    \/ \E target \in Targets, status \in StatusInputs : SetStatus(target, status)
    \/ \E target \in Targets : Delete(target)
    \/ \E fault \in 0..MaxId : Refresh(fault)
    \/ Clean(0)
    \/ Repeat
    \/ ListTodos
    \/ ShowCalendar
    \/ ShowWeekly
    \/ AdvanceDay

Spec == Init /\ [][Next]_vars

\* ------------------------------------------ the dashboard on one stored task
\* anchors: a Wednesday that is the 31st, a Monday that is the 15th, and a
\* text that names no day
DisplayAnchors == {<<2024, 1, 31>>, <<2024, 1, 15>>, <<2024, 2, 30>>}
DisplayCompleted == {NULLDATE, <<2024, 2, 2>>}
DisplayStatus == {"pending", "done", "archived"}
DisplayRecurrence == {NULL, "daily", "weekly", "monthly"}
DisplayTodos ==
    {Todo("t", "medium", NULLDATE, st, anchor, completed, rec, 1, NoParent, NULL) :
        st \in DisplayStatus, anchor \in DisplayAnchors,
        completed \in DisplayCompleted, rec \in DisplayRecurrence}
\* the current date at an evaluation
DisplayNows == {toordinal(<<2024, 1, 25>>), toordinal(<<2024, 2, 2>>), toordinal(<<2024, 2, 20>>)}
\* the days a calendar asks about
FirstShown == toordinal(<<2024, 1, 22>>)
LastShown == toordinal(<<2024, 3, 31>>)
DisplayDays == FirstShown..LastShown

TheTodo == CHOOSE t \in get_all_todos(todos) : TRUE

InitDisplay ==
    /\ todos \in {{t} : t \in DisplayTodos}
    /\ seq = 1
    /\ today \in DisplayNows
    /\ last = Ran("start", "ok", {})
    /\ ops = 0
    /\ q = NoQuery
    /\ InitTimetrack

\* the calendar asks is_display_daily about the stored task and a day
Evaluate(d) ==
    /\ q.n = 0
    /\ q' = [n |-> 1, day |-> isoformat(d), now |-> today,
             res |-> is_display_daily(TheTodo, isoformat(d), today),
             prev_now |-> 0, prev_res |-> Res(FALSE, FALSE),
             listed |-> is_recurring_today(TheTodo, d),
             store |-> todos]
    /\ UNCHANGED <<todos, seq, today, last, ops, timetrack>>

\* ... and asks again about the same task and day
EvaluateAgain ==
    /\ q.n >= 1
    /\ q.n < MaxEvals
    /\ q' = [q EXCEPT !.n = q.n + 1, !.now = today,
                      !.res = is_display_daily(TheTodo, q.day, today),
                      !.prev_now = q.now, !.prev_res = q.res]
    /\ UNCHANGED <<todos, seq, today, last, ops, timetrack>>

\* the current date moves on between two evaluations
ClockMoves ==
    /\ \E d \in DisplayNows : d > today /\ today' = d
    /\ UNCHANGED <<todos, seq, last, ops, q, timetrack>>

NextDisplay ==
    \/ \E d \in DisplayDays : Evaluate(d)
    \/ EvaluateAgain
    \/ ClockMoves

SpecDisplay == InitDisplay /\ [][NextDisplay]_vars

\* ------------------------------------------------- repeat on one done task
\* the completion dates and add-dates of the done task
RepeatBases == {<<2024, 1, 31>>, <<2024, 2, 29>>, <<2024, 3, 15>>, <<2024, 12, 31>>}
RepeatCompleted == RepeatBases \cup {NULLDATE}
RepeatRecurrence == {"daily", "weekly", "monthly"}
RepeatTodos ==
    {Todo("t", "medium", NULLDATE, "done", added, completed, rec, 1, NoParent, NULL) :
        added \in RepeatBases, completed \in RepeatCompleted, rec \in RepeatRecurrence}
\* the days on which repeat is run
RepeatNows ==
    {toordinal(<<2024, 1, 31>>), toordinal(<<2024, 3, 30>>), toordinal(<<2024, 4, 30>>),
     toordinal(<<2024, 5, 31>>), toordinal(<<2024, 6, 15>>)}

InitRepeat ==
    /\ todos \in {{t} : t \in RepeatTodos}
    /\ seq = 1
    /\ today \in RepeatNows
    /\ last = Ran("start", "ok", {})
    /\ ops = 0
    /\ q = NoQuery
    /\ InitTimetrack

\* the wall clock reaches a later day on which repeat is run
RepeatDayPasses ==
    /\ Counted
    /\ \E d \in RepeatNows : d > today /\ today' = d
    /\ last' = Ran("day", "ok", {})
    /\ UNCHANGED <<todos, seq, q, timetrack>>

NextRepeat ==
    \/ Repeat
    \/ RepeatDayPasses

SpecRepeat == InitRepeat /\ [][NextRepeat]_vars

\* ---------------------------------------------- repeat on two done tasks
MaxMade == 2        \* rows one run of repeat may add to the two it finds
PairBases == {<<2024, 1, 31>>, <<2024, 3, 15>>}
PairTodos(id) ==
    {Todo("t", "medium", NULLDATE, "done", added, completed, rec, id, NoParent, NULL) :
        added \in PairBases, completed \in PairBases \cup {NULLDATE},
        rec \in RepeatRecurrence}

InitRepeatPair ==
    /\ todos \in {{t1, t2} : t1 \in PairTodos(1), t2 \in PairTodos(2)}
    /\ seq = 2
    /\ today \in RepeatNows
    /\ last = Ran("start", "ok", {})
    /\ ops = 0
    /\ q = NoQuery
    /\ InitTimetrack

\* repeat, with room for a row for each of the two done tasks
RepeatPair ==
    /\ Counted
    /\ LET run == repeat(todos, seq, today)
       IN  /\ run.seq <= 2 + MaxMade
           /\ todos' = run.rows
           /\ seq' = run.seq
           /\ last' = Ran("repeat", "ok", {g.id : g \in run.made})
    /\ UNCHANGED <<today, q, timetrack>>

NextRepeatPair ==
    \/ RepeatPair
    \/ RepeatDayPasses

SpecRepeatPair == InitRepeatPair /\ [][NextRepeatPair]_vars

\* ----------------------------------------------------- Todo construction
\* the texts a caller may hand to Todo(...)
ConstructStatus == {"pending", "in-progress", "done", "archived", "Done", "bogus", ""}
ConstructPriority == {"low", "medium", "high", " HIGH", "bogus", ""}
ConstructRecurrence == {NULL, "", "daily", "weekly", "monthly", "Daily ", "none", "NONE", "bogus"}
ConstructAlias == {NULL, "", " ", "a", "My A"}

\* Todo(...) called once with these values; todos holds the object it
\* returns, last.out the values it was called with
Construct(status, priority, recurrence, alias) ==
    /\ Counted
    /\ last.op = "start"
    /\ todos' = {Todo("t", priority, NULLDATE, status, isoformat(today), NULLDATE,
                      recurrence, 0, NoParent, alias)}
    /\ last' = Ran("construct", "ok",
                   {[status |-> status, priority |-> priority,
                     recurrence |-> recurrence, alias |-> alias]})
    /\ UNCHANGED <<seq, today, q, timetrack>>

NextTodo ==
    \E status \in ConstructStatus, priority \in ConstructPriority,
       recurrence \in ConstructRecurrence, alias \in ConstructAlias :
        Construct(status, priority, recurrence, alias)

SpecTodo == Init /\ [][NextTodo]_vars

\* ------------------------------------------------------- the time tracker
\* TIMETRACK/timetrap_app.py on the tables above; --at is never given, so
\* every time is the clock's; kill runs with --yes
SheetNames == {"work", "home"}
NoteInputs == {NULL, "n"}

\* sheet <name>: switch to the sheet, creating it if necessary;
\* last.out: the id of the sheet
SwitchSheet(sheet_name) ==
    /\ Counted
    /\ LET ins == insert_sheet(sheets, sqlite_sequence.sheets, sheet_name)
       IN  /\ ins.n <= MaxId
           /\ sheets' = ins.rows
           /\ sqlite_sequence' = [sqlite_sequence EXCEPT !.sheets = ins.n]
           /\ current' = sheet_name
           /\ last' = Ran("sheet", "ok", {s.id : s \in ins.sheet})
    /\ UNCHANGED <<todos, seq, today, q, entries>>

\* in [note]; last.out: the id of the entry made
CheckIn(note) ==
    /\ Counted
    /\ IF get_current_sheet(current, sheets) = {}
       THEN /\ last' = Ran("in", "error", {})
            /\ UNCHANGED <<entries, sqlite_sequence>>
       ELSE /\ sqlite_sequence.entries < MaxId
            /\ entries' = UNION {insert_entry(entries, sqlite_sequence.entries,
                                     Entry(0, s.id, isoformat(today), NULLDATE, note)) :
                                 s \in get_current_sheet(current, sheets)}
            /\ sqlite_sequence' = [sqlite_sequence EXCEPT !.entries = @ + 1]
            /\ last' = Ran("in", "ok", {sqlite_sequence.entries + 1})
    /\ UNCHANGED <<todos, seq, today, q, sheets, current>>

\* max(running, key=start_time): the first, in rowid order, of the latest
latest_started(running) ==
    {e \in running :
        \A o \in running :
            \/ fromisoformat(o.start_time) < fromisoformat(e.start_time)
            \/ fromisoformat(o.start_time) = fromisoformat(e.start_time) /\ e.id <= o.id}

\* the entries out stops: every running entry of the named sheet, or the
\* latest running entry of the current sheet
entries_to_checkout(sheet_rows, entry_rows, name, sheet_name) ==
    IF Truthy(sheet_name)
    THEN {e \in get_running_entries(entry_rows) :
            \E s \in get_sheet_by_name(sheet_rows, sheet_name) : e.sheet_id = s.id}
    ELSE latest_started({e \in get_running_entries(entry_rows) :
            \E s \in get_current_sheet(name, sheet_rows) : e.sheet_id = s.id})

\* the loop of out: an entry that starts after end_time is skipped
RECURSIVE check_out_loop(_, _, _)
check_out_loop(rows, todo, end_time) ==
    IF todo = {} THEN rows
    ELSE LET entry == CHOOSE e \in todo : \A o \in todo : e.id <= o.id
         IN  check_out_loop(IF fromisoformat(entry.start_time) > end_time
                            THEN rows
                            ELSE update_entry(rows, entry.id, end_time),
                            todo \ {entry}, end_time)

\* out [sheet_name]; last.out: the ids of the entries it was to stop
CheckOut(sheet_name) ==
    /\ Counted
    /\ IF (IF Truthy(sheet_name) THEN get_sheet_by_name(sheets, sheet_name)
                                 ELSE get_current_sheet(current, sheets)) = {}
       THEN /\ last' = Ran("out", "error", {})
            /\ UNCHANGED entries
       ELSE IF entries_to_checkout(sheets, entries, current, sheet_name) = {}
       THEN /\ last' = Ran("out", "none", {})
            /\ UNCHANGED entries
       ELSE /\ entries' = check_out_loop(entries,
                              entries_to_checkout(sheets, entries, current, sheet_name), today)
            /\ last' = Ran("out", "ok",
                           {e.id : e \in entries_to_checkout(sheets, entries, current, sheet_name)})
    /\ UNCHANGED <<todos, seq, today, q, sheets, current, sqlite_sequence>>

\* kill [--id N] [sheet_name] --yes; id 0 is the option not given, which the
\* command tests by truth; last.out: the id of the sheet or entry deleted
Kill(id, sheet_name) ==
    /\ Counted
    /\ IF id # 0 /\ Truthy(sheet_name)
       THEN /\ last' = Ran("kill", "error", {})
            /\ UNCHANGED <<sheets, entries, current>>
       ELSE IF id # 0
       THEN IF get_entry_by_id(entries, id) = {}
            THEN /\ last' = Ran("kill", "error", {})
                 /\ UNCHANGED <<sheets, entries, current>>
            ELSE /\ entries' = delete_entry(entries, id)
                 /\ last' = Ran("kill", "entry deleted", {id})
                 /\ UNCHANGED <<sheets, current>>
       ELSE IF Truthy(sheet_name)
       THEN IF get_sheet_by_name(sheets, sheet_name) = {}
            THEN /\ last' = Ran("kill", "error", {})
                 /\ UNCHANGED <<sheets, entries, current>>
            ELSE LET del == delete_sheet(sheets, entries, sheet_name)
                 IN  /\ sheets' = del.sheets
                     /\ entries' = del.entries
                     /\ current' = IF del.ok /\ current = sheet_name THEN NULL ELSE current
                     /\ last' = Ran("kill", IF del.ok THEN "sheet deleted" ELSE "failed",
                                    {s.id : s \in get_sheet_by_name(sheets, sheet_name)})
       ELSE /\ last' = Ran("kill", "error", {})
            /\ UNCHANGED <<sheets, entries, current>>
    /\ UNCHANGED <<todos, seq, today, q, sqlite_sequence>>

\* the rows of now: each running entry under its sheet's name, "Unknown"
\* when no sheet has its sheet_id
now_rows(sheet_rows, entry_rows) ==
    {[entry |-> e.id, sheet_id |-> e.sheet_id,
      sheet |-> IF get_sheet_by_id(sheet_rows, e.sheet_id) = {} THEN "Unknown"
                ELSE (CHOOSE s \in get_sheet_by_id(sheet_rows, e.sheet_id) : TRUE).name] :
     e \in get_running_entries(entry_rows)}

\* now; last.out: the rows it prints
ShowNow ==
    /\ Counted
    /\ last' = Ran("now", "ok", now_rows(sheets, entries))
    /\ UNCHANGED <<todos, seq, today, q, timetrack>>

NextTimesheet ==
    \/ \E sheet_name \in SheetNames : SwitchSheet(sheet_name)
    \/ \E note \in NoteInputs : CheckIn(note)
    \/ \E sheet_name \in SheetNames \cup {NULL} : CheckOut(sheet_name)
    \/ \E id \in 0..MaxId, sheet_name \in SheetNames \cup {NULL} : Kill(id, sheet_name)
    \/ ShowNow
    \/ AdvanceDay

SpecTimesheet == Init /\ [][NextTimesheet]_vars

\* ================================================================== claims
AliasUnique ==
    \A r1, r2 \in todos : (r1.alias # NULL /\ r1.alias = r2.alias) => r1.id = r2.id

\* C1: a refresh that directly follows a refresh on the same day leaves the
\* number of task records as the first one left it.
C1_RefreshTwiceSameCount ==
    [][(/\ last.op = "refresh" /\ last.res = "ok"
        /\ last'.op = "refresh" /\ last'.res = "ok")
       => Cardinality(todos') = Cardinality(todos)]_vars

\* C2: in every reachable state a task's date_completed is non-null exactly
\* when its status is done.
C2_CompletedIffDone ==
    \A r \in todos : (r.date_completed # NULLDATE) <=> (r.status = "done")

\* C3: no two stored tasks carry the same non-null alias, and a command that
\* is refused because it would create a second holder of an alias leaves the
\* store as it was.
C3_AliasUniqueAndRefusalKeepsStore ==
    [][AliasUnique' /\ (last'.res = "conflict" => todos' = todos)]_vars

\* C4: once delete(T) has completed, no stored task has T as its parent.
C4_DeleteRemovesChildren ==
    (last.op = "delete" /\ last.res = "ok")
        => \A r \in todos : r.parent_id \notin last.out

\* C5: no view (today list, calendar, weekly) writes a task whose status is
\* archived.
C5_ArchivedNeverShown ==
    last.op \in {"list", "calendar", "weekly"}
        => \A r \in todos : r.status = "archived" => r.id \notin last.out

Asked == q.n >= 1
Anchor == fromisoformat(TheTodo.date_added)
Day == fromisoformat(q.day)
week_start(n) == n - (n % 7)

\* C7: for a weekly task, is_relevant_on_day is true exactly when the
\* Monday-start week of the day is the anchor's week or a later one.
C7_WeeklyByWeek ==
    (Asked /\ TheTodo.recurrence = "weekly" /\ CanParse(TheTodo.date_added))
        => /\ ~q.res.raised
           /\ q.res.value <=> (week_start(Day) >= week_start(Anchor))

\* the three reasons of a non-recurring task, at the clock of the evaluation
CompletionDay == TheTodo.status = "done" /\ TheTodo.date_completed = q.day
OverdueWindow ==
    /\ TheTodo.status # "done" /\ CanParse(TheTodo.date_added)
    /\ Anchor < q.now /\ Anchor <= Day /\ Day < q.now
AddedThisDay ==
    /\ TheTodo.status # "done" /\ CanParse(TheTodo.date_added)
    /\ Anchor = Day
Reasons == Cardinality({i \in 1..3 : \/ i = 1 /\ CompletionDay
                                     \/ i = 2 /\ OverdueWindow
                                     \/ i = 3 /\ AddedThisDay})

\* C8 as claimed: a relevant non-recurring task has exactly one reason.
C8_ExactlyOneReason ==
    (Asked /\ ~Truthy(TheTodo.recurrence) /\ q.res.value) => Reasons = 1

\* C8 as amended: a relevant non-recurring task has at least one reason; the
\* completion-day reason never holds with another; the overdue window and
\* added-on-this-day hold together exactly on the add-date of a not-done task
\* added before today.
C8_ReasonsOverlapOnlyOnAddDay ==
    (Asked /\ ~Truthy(TheTodo.recurrence))
        => /\ q.res.value => Reasons >= 1
           /\ (~q.res.raised /\ Reasons >= 1) => q.res.value
           /\ CompletionDay => Reasons = 1
           /\ (q.res.value /\ Reasons = 2) <=>
                 (/\ TheTodo.status # "done" /\ CanParse(TheTodo.date_added)
                  /\ Anchor = Day /\ Day < q.now)

\* a not-done task asked about on its add-date, after that date
C8_Witness ==
    /\ Asked /\ ~Truthy(TheTodo.recurrence) /\ q.res.value
    /\ OverdueWindow /\ AddedThisDay

\* C9 as claimed: two evaluations on the same task and day agree whatever
\* the current date of each, and the store is as before.
C9_SameResultAnyClock ==
    q.n >= 2 => (q.res = q.prev_res /\ todos = q.store)

\* C9 as amended: the result is a function of (task, day, current date); it
\* does not depend on the current date for a recurring task nor for a done
\* task, and for a not-done one-off task it can only differ between a
\* current date on or before the day and one after it. No evaluation changes
\* the store.
C9_ClockOnlyMovesOverdueWindow ==
    q.n >= 2 =>
        /\ todos = q.store
        /\ (Truthy(TheTodo.recurrence) \/ TheTodo.status = "done") => q.res = q.prev_res
        /\ q.res # q.prev_res =>
              \/ (q.prev_now <= Day /\ Day < q.now)
              \/ (q.now <= Day /\ Day < q.prev_now)

\* a recurring task evaluated as relevant at two different current dates
C9_Witness ==
    /\ q.n >= 2 /\ q.now # q.prev_now
    /\ Truthy(TheTodo.recurrence) /\ q.res.value /\ q.prev_res.value

\* C10: for a task whose date_added is no calendar date, is_relevant_on_day
\* fails with an error on every day.
C10_MalformedAlwaysRaises ==
    (Asked /\ ~ValidIso(TheTodo.date_added)) => q.res.raised

\* C11: once a task's status is archived, no step changes that task's
\* status to another value.
C11_ArchivedIsTerminal ==
    [][\A r \in todos : r.status = "archived" =>
          \A r2 \in todos' : r2.id = r.id => r2.status = "archived"]_vars

\* ---- claims on repeat (SpecRepeat)
\* B plus k calendar months: the same day of the k-th month after B's month,
\* or the last day of that month when it has no such day
months_later(n, k) ==
    LET t == isoformat(n)
        mm == (t[2] - 1) + k
    IN  clipped(t[1] + (mm \div 12), (mm % 12) + 1, t[3])
periods_later(n, recurrence, k) ==
    IF recurrence = "daily" THEN n + k
    ELSE IF recurrence = "weekly" THEN n + 7 * k
    ELSE months_later(n, k)
TheDone == CHOOSE t \in todos : t.id = 1
Base == fromisoformat(IF TheDone.date_completed # NULLDATE THEN TheDone.date_completed
                      ELSE TheDone.date_added)
\* the least k >= 1 with B plus k periods not before today
LeastK ==
    CHOOSE k \in 1..((IF today > Base THEN today - Base ELSE 0) + 1) :
        /\ periods_later(Base, TheDone.recurrence, k) >= today
        /\ \A j \in 1..(k - 1) : periods_later(Base, TheDone.recurrence, j) < today
Generated == {r \in todos : r.id \in last.out}

\* C12: the task that repeat generates from a done recurring task with
\* base date B is due on B plus k periods, for the least k >= 1 that puts
\* it on today or later; it is never due in the past.
C12_NextDueIsBasePlusPeriods ==
    (last.op = "repeat" /\ Generated # {})
        => \A r \in Generated :
              /\ fromisoformat(r.due_date) >= today
              /\ fromisoformat(r.due_date) = periods_later(Base, TheDone.recurrence, LeastK)

\* C13: when an update changes the priority (recurrence) of a task P, every
\* task whose parent is P has P's new priority (recurrence) afterwards, and
\* every other task keeps its priority and recurrence.
C13_CascadeToDirectChildren ==
    [][(last'.op = "update" /\ ops' = ops + 1) =>
        \A p \in todos, p2 \in todos' :
            (p.id \in last'.out /\ p2.id = p.id) =>
                /\ p2.priority # p.priority =>
                      \A c \in todos' : c.parent_id = p.id => c.priority = p2.priority
                /\ p2.recurrence # p.recurrence =>
                      \A c \in todos' : c.parent_id = p.id => c.recurrence = p2.recurrence
                /\ \A r \in todos, r2 \in todos' :
                      (r2.id = r.id /\ r.id # p.id /\ r2.parent_id # p.id) =>
                          (r2.priority = r.priority /\ r2.recurrence = r.recurrence)]_vars

\* an update has given P a new priority, P's child has it too, and a task
\* that is not P's child has another priority
C13_Witness ==
    /\ last.op = "update" /\ last.res = "ok"
    /\ \E p, c, g \in todos :
          /\ p.id \in last.out /\ p.priority = "high"
          /\ c.parent_id = p.id /\ c.id # p.id /\ c.priority = "high"
          /\ g.parent_id = c.id /\ g.id \notin {p.id, c.id} /\ g.priority = "medium"

\* C14: a row that a refresh creates is dated today and pending, and a
\* refresh leaves every row whose date_added is today or later as it was
\* (so an instance created today stays pending through further refreshes
\* of the same day).
C14_TodaysRowsUntouched ==
    [][(last'.op \in {"refresh", "clean"} /\ ops' = ops + 1) =>
        /\ \A n \in todos' : (\A r \in todos : r.id # n.id) =>
              (n.date_added = isoformat(today) /\ n.status = "pending")
        /\ \A r \in todos, r2 \in todos' :
              (r2.id = r.id /\ ~IsoLess(r.date_added, isoformat(today))) => r2 = r]_vars

\* a refresh has run with the instances of two refreshes of this day in
\* the store, both still pending
C14_Witness ==
    /\ last.op = "refresh" /\ last.res = "ok"
    /\ \E a, b, c \in todos :
          /\ a.status = "archived" /\ a.recurrence = "daily"
          /\ b.id # c.id /\ b.status = "pending" /\ c.status = "pending"
          /\ b.date_added = isoformat(today) /\ c.date_added = isoformat(today)
          /\ b.recurrence = "daily" /\ c.recurrence = "daily"

\* C15: for a monthly task, is_relevant_on_day is true exactly on the days
\* on or after the anchor whose day of the month is the anchor's; it is
\* false on the day before and the day after such a day, and in a month
\* that has no such day.
C15_MonthlyOnAnchorDayOfMonth ==
    (Asked /\ TheTodo.recurrence = "monthly" /\ CanParse(TheTodo.date_added))
        => /\ ~q.res.raised
           /\ q.res.value <=> (Day >= Anchor /\ day(Day) = day(Anchor))
           /\ q.res.value =>
                 /\ ~is_display_daily(TheTodo, isoformat(Day - 1), q.now).value
                 /\ ~is_display_daily(TheTodo, isoformat(Day + 1), q.now).value
           /\ day(Anchor) > DaysInMonth(year(Day), month(Day)) => ~q.res.value

\* a monthly task anchored on the 31st is relevant on the 31st of a later
\* month
C15_Witness ==
    /\ Asked /\ TheTodo.recurrence = "monthly" /\ CanParse(TheTodo.date_added)
    /\ day(Anchor) = 31 /\ month(Day) > month(Anchor) /\ q.res.value

\* C16: for a daily task, is_relevant_on_day is true on every day on or
\* after the anchor and false on every day before it, whatever the status
\* and the current date.
C16_DailyFromAnchor ==
    (Asked /\ TheTodo.recurrence = "daily" /\ CanParse(TheTodo.date_added))
        => /\ ~q.res.raised
           /\ q.res.value <=> (Day >= Anchor)

\* a done daily task is relevant on its anchor day, asked on a later date
C16_Witness ==
    /\ Asked /\ TheTodo.recurrence = "daily" /\ CanParse(TheTodo.date_added)
    /\ TheTodo.status = "done" /\ Day = Anchor /\ q.now > Day /\ q.res.value

\* C17: no step changes the date_added of a record that exists before and
\* after it; another anchor only appears on a record the step creates.
C17_AnchorNeverChanges ==
    [][\A r \in todos, r2 \in todos' : r2.id = r.id => r2.date_added = r.date_added]_vars

\* repeat has made a record with a later anchor from a done task, and
\* that task still has the anchor it was added with
C17_Witness ==
    /\ last.op = "repeat"
    /\ \E r, n \in todos :
          /\ r.status = "done" /\ r.date_added = isoformat(FirstDay)
          /\ n.id \in last.out /\ IsoLess(r.date_added, n.date_added)

\* ---- claims on Todo construction (SpecTodo)
\* C18: constructing a Todo from texts succeeds; the object has a status among
\* pending, in-progress, done, archived, a priority among low, medium, high
\* and a recurrence that is absent or among daily, weekly, monthly; a value
\* given from outside these sets is replaced by pending, medium, absent.
C18_ConstructedWithinEnums ==
    last.op = "construct" =>
        /\ last.res = "ok"
        /\ \A t \in todos, given \in last.out :
              /\ t.status \in {"pending", "in-progress", "done", "archived"}
              /\ t.priority \in {"low", "medium", "high"}
              /\ t.recurrence \in {NULL, "", "daily", "weekly", "monthly"}
              /\ lower_strip(given.status) \notin {"pending", "in-progress", "done", "archived"}
                    => t.status = "pending"
              /\ lower_strip(given.priority) \notin {"low", "medium", "high"}
                    => t.priority = "medium"
              /\ lower_strip(given.recurrence) \notin {"daily", "weekly", "monthly"}
                    => t.recurrence \in {NULL, ""}


\* C19: after a kill that deleted sheet S (last.out holds S's id) no entry
\* with S's sheet id remains in the entries table
C19_KillLeavesNoEntries ==
    (last.op = "kill" /\ last.res = "sheet deleted") =>
        \A e \in entries : e.sheet_id \notin last.out

\* the rows that are a fresh instance of the old row o made on day now
fresh_copies(o, now, rows) ==
    {r \in rows : /\ r.task = o.task
                  /\ r.priority = o.priority
                  /\ r.recurrence = o.recurrence
                  /\ r.parent_id = o.parent_id
                  /\ r.alias = o.alias
                  /\ r.status = "pending"
                  /\ r.date_added = isoformat(now)
                  /\ r.date_completed = NULLDATE
                  /\ r.due_date = NULLDATE}

\* C20: a refresh that the database does not fail completes, and the rows it
\* has added are one fresh instance for each selected task for which a new
\* instance is due: same task, priority, recurrence, parent_id and alias,
\* status pending, date_added today, no date_completed and no due_date
C20_RefreshAddsOneCopyEach ==
    [][Refresh(0) =>
         LET old == old_tasks(todos, today)
             due == {i \in 1..Len(old) : should_create(old[i], today)}
             added == {r \in todos' : r.id > seq}
         IN  /\ last'.res = "ok"
             /\ Cardinality(added) = Cardinality(due)
             /\ \A i \in due : fresh_copies(old[i], today, added) # {}]_vars

\* the rule of the new instance: daily always; weekly when the ISO week
\* number of the day differs from the anchor's; monthly when the month
\* number differs
instance_due(o, now) ==
    \/ o.recurrence = "daily"
    \/ o.recurrence = "weekly" /\ isoweek(now) # isoweek(fromisoformat(o.date_added))
    \/ o.recurrence = "monthly" /\ month(now) # month(fromisoformat(o.date_added))

selected_by_refresh(r, now) ==
    /\ r.recurrence \in {"daily", "weekly", "monthly"}
    /\ fromisoformat(r.date_added) < now

\* C22: a refresh that completes keeps every row it found, has set exactly
\* the recurring rows added before today to archived, with or without a new
\* instance due, and has left every other row it found as it was.
C22_ExactlySelectedArchived ==
    [][(Refresh(0) /\ last'.res = "ok") =>
         \A r \in todos : \E r2 \in todos' :
            /\ r2.id = r.id
            /\ selected_by_refresh(r, today) => r2 = [r EXCEPT !.status = "archived"]
            /\ ~selected_by_refresh(r, today) => r2 = r]_vars

\* a refresh has archived a weekly task within its ISO week, making no
\* instance, beside an open task without recurrence added before today
C22_Witness ==
    /\ last.op = "refresh" /\ last.res = "ok"
    /\ \E w, p \in todos :
          /\ w.recurrence = "weekly" /\ w.status = "archived"
          /\ isoweek(fromisoformat(w.date_added)) = isoweek(today)
          /\ p.recurrence = NULL /\ p.status = "pending"
          /\ fromisoformat(p.date_added) < today
          /\ Cardinality(todos) = 2

\* the store holds a task that is not done, has the text and recurrence of
\* the done task and is due on the done task's candidate date or later
blocked_by_open_task(rows, task, now) ==
    \E e \in rows :
        /\ e.status # "done"
        /\ e.task = task.task /\ e.recurrence = task.recurrence
        /\ e.due_date # NULLDATE
        /\ fromisoformat(e.due_date) >= next_due_of(task, now)

\* C23: repeat adds no row for a done recurring task while the store holds
\* a task that is not done, with the same text and recurrence, due on the
\* candidate date or later: no added row has that text, recurrence and the
\* candidate date, and every row of the store is kept as it was.
C23_NoNewTaskWhenOpenOneIsDue ==
    [][(last'.op = "repeat" /\ ops' = ops + 1) =>
         /\ todos \subseteq todos'
         /\ \A task \in todos :
              (repeats(task) /\ blocked_by_open_task(todos, task, today)) =>
                 ~ \E r \in todos' \ todos :
                      /\ r.task = task.task /\ r.recurrence = task.recurrence
                      /\ r.due_date = isoformat(next_due_of(task, today))]_vars

\* repeat has run and made nothing: the open task it made before is due on
\* the candidate date of the done task
C23_Witness ==
    /\ last.op = "repeat" /\ last.out = {}
    /\ \E task, e \in todos :
          /\ repeats(task) /\ e.status = "pending"
          /\ e.task = task.task /\ e.recurrence = task.recurrence
          /\ e.due_date = isoformat(next_due_of(task, today))

\* C24: every row that repeat adds is pending, due and added on the
\* candidate date of a done recurring task whose text, priority and
\* recurrence it has, with no date_completed, no parent_id and no alias;
\* the rows of the store, the done task's among them, are kept as they were.
C24_GeneratedTaskFields ==
    [][(last'.op = "repeat" /\ ops' = ops + 1) =>
         /\ todos \subseteq todos'
         /\ \A r \in todos' \ todos : \E task \in todos :
              /\ repeats(task)
              /\ r.status = "pending"
              /\ r.due_date = isoformat(next_due_of(task, today))
              /\ r.date_added = r.due_date
              /\ r.date_completed = NULLDATE
              /\ r.task = task.task
              /\ r.priority = task.priority
              /\ r.recurrence = task.recurrence
              /\ r.parent_id = NoParent
              /\ r.alias = NULL]_vars

\* repeat has made the next task of a done task that has a parent and an
\* alias
C24_Witness ==
    /\ last.op = "repeat"
    /\ \E task, r \in todos :
          /\ repeats(task) /\ task.parent_id # NoParent /\ task.alias # NULL
          /\ r.id \in last.out /\ r.task = task.task
          /\ r.parent_id = NoParent /\ r.alias = NULL
          /\ Cardinality(last.out) = 1

\* C25: for a task without recurrence whose date_added is a date,
\* is_relevant_on_day is true exactly when the task is done and completed on
\* the day, or is not done, was added before today and the day is from its
\* add-date up to yesterday, or is not done and was added on the day; so a
\* not-done task added before today is not relevant today or later.
C25_NonRecurringRelevance ==
    (Asked /\ ~Truthy(TheTodo.recurrence) /\ CanParse(TheTodo.date_added))
        => /\ ~q.res.raised
           /\ q.res.value <=>
                 \/ TheTodo.status = "done" /\ TheTodo.date_completed = q.day
                 \/ /\ TheTodo.status # "done"
                    /\ Anchor < q.now /\ Anchor <= Day /\ Day < q.now
                 \/ TheTodo.status # "done" /\ Anchor = Day
           /\ (TheTodo.status # "done" /\ Anchor < q.now /\ Day >= q.now)
                 => ~q.res.value

\* a not-done task added before today, asked about today: not relevant
C25_Witness ==
    /\ Asked /\ ~Truthy(TheTodo.recurrence) /\ CanParse(TheTodo.date_added)
    /\ TheTodo.status = "pending" /\ Anchor < q.now /\ Day = q.now
    /\ ~q.res.raised /\ ~q.res.value

\* C26: an archived row is the source of no new instance: a refresh that
\* completes adds at most as many rows as it found recurring rows added
\* before today that were not archived.
C26_ArchivedNotRegenerated ==
    [][(Refresh(0) /\ last'.res = "ok") =>
         Cardinality({r \in todos' : \A x \in todos : x.id # r.id})
            <= Cardinality({o \in todos : /\ o.status # "archived"
                                         /\ selected_by_refresh(o, today)})]_vars

\* C27: a refresh that completes loses no active recurring task: for every
\* recurring row that was not archived, the store holds afterwards a row
\* that is not archived with the same text and recurrence.
C27_RefreshKeepsActiveTasks ==
    [][(Refresh(0) /\ last'.res = "ok") =>
         \A r \in todos :
            (r.recurrence \in {"daily", "weekly", "monthly"} /\ r.status # "archived") =>
               \E r2 \in todos' : /\ r2.status # "archived"
                                  /\ r2.task = r.task
                                  /\ r2.recurrence = r.recurrence]_vars

\* C28: after a refresh that completes, no row that is not archived has the
\* id of an archived row as its parent_id.
C28_NoActiveChildOfArchivedParent ==
    [][(Refresh(0) /\ last'.res = "ok") =>
         \A r, p \in todos' :
            (r.status # "archived" /\ r.parent_id = p.id) => p.status # "archived"]_vars

\* C29: one run of repeat adds no two rows with the same text, recurrence
\* and due date.
C29_NoTwinsInOneRun ==
    [][(last'.op = "repeat" /\ ops' = ops + 1) =>
         \A r1, r2 \in todos' \ todos :
            (r1.task = r2.task /\ r1.recurrence = r2.recurrence /\ r1.due_date = r2.due_date)
               => r1.id = r2.id]_vars

\* C30: the list command ends on every store: each walk from a displayed
\* row up the parent references comes to a row without a parent.
C30_ListEnds ==
    last.op = "list" => last.res = "ok"

====
